---- MODULE Spec2Model ----
(***************************************************************************)
(* Pixels Web Connect: the Pixel controller (connection state machine,     *)
(* request/response correlation), the Mutex and the exponential back-off   *)
(* helper, modelled from the TypeScript sources.                           *)
(*                                                                         *)
(* Scheduling model.  JavaScript runs one task at a time.  A macrotask (a  *)
(* transport completion, a notification, a timer, the link-loss event) is  *)
(* followed by the draining of the microtask queue, in which the promise   *)
(* continuations it made runnable are run.  Here a continuation that reads *)
(* the Pixel's fields is an action of its own and macrotask actions are    *)
(* disabled while a continuation is runnable (Runnable).  Calls made by    *)
(* the application (connect, disconnect, sendMessage,                      *)
(* sendAndWaitForResponse) may come from its own listeners and             *)
(* continuations, so they are enabled at any point.                        *)
(*                                                                         *)
(* Transport model (Web Bluetooth).  BluetoothRemoteGATTServer.disconnect  *)
(* and a link loss set gatt.connected to false and fire                    *)
(* "gattserverdisconnected" in the same task; GATT operations pending at   *)
(* that time are rejected (doomed).                                        *)
(*                                                                         *)
(* The private member _connecting only feeds the getter "initializing";    *)
(* it is left out.                                                         *)
(***************************************************************************)
EXTENDS Integers, Sequences, FiniteSets, TLC

\* ---- bounds of the model
NTasks == 2        \* concurrent application calls / scheduled reconnects on one Pixel
MaxInfo == 2       \* distinct payloads the die may send in a message
NClients == 3      \* clients of one Mutex in MutexSpec
MaxCalls == 4      \* dispatch calls recorded in MutexSpec
MaxRetries == 3    \* largest retries argument of exponentialBackOff in BackOffSpec
MaxDelay == 2      \* largest delay argument of exponentialBackOff in BackOffSpec
MaxBytes == 250    \* largest data.byteLength passed to uploadBulkData in BulkSpec
MaxTail == 2       \* bytes after the message type in a short buffer received in CodecSpec

\* ---- program constants
AutoRetries == 4   \* exponentialBackOff(autoReconnect ? 4 : 0, ...)
BaseDelay == 2     \* exponentialBackOff(..., 2, ...)
MaxMessageSize == 100   \* Constants.MaxMessageSize

Tasks == 1..NTasks
Clients == 1..NClients
Payloads == 1..MaxInfo
MsgTypes == {"IAmADie", "RollState"}

VARIABLES
  \* Pixel private members
  _connected, _reconnect, _session, _info,
  \* BluetoothDevice.gatt and the notify characteristic
  gattConnected, notifying, doomed,
  \* Mutex._connMtx: the chain of lock() links not yet released
  mutex,
  \* the asynchronous calls in progress, one per task
  pc, autoReconnect, retries, delay, localInfo,
  \* the tasks that run the reconnect scheduled by the handler
  timer,
  \* waitForMsg / Session.sendMessage promises of the call of each task
  wait, wval, write, listeners, orphans,
  \* what the last step showed to the application: the connection events it
  \* dispatched and the call (or connect attempt) it ended
  emitted, ended,
  \* history of the Pixel (dropped: a gattserverdisconnected event was
  \* dispatched since the connect() call of the task was made)
  sessions, since, lost, dropped, got, order, expired, attempts,
  \* the clients of a Mutex on its own (MutexSpec): where each one is in its
  \* dispatch call, the dispatch call the last step ended, the order of the
  \* lock() calls and the order in which they were granted
  client, dispatched, lockOrder, grantOrder,
  \* one call of exponentialBackOff on its own (BackOffSpec)
  backOff,
  \* one data transfer on its own (BulkSpec)
  bulk,
  \* one message through serializeMessage and deserializeMessage (CodecSpec)
  codec

\* no Connected event and no IAmADie given to a listener since the last
\* Disconnected event
NoSince == [connected |-> FALSE, iAmADie |-> FALSE]

pixelVars == <<_connected, _reconnect, _session, _info>>
gattVars == <<gattConnected, notifying, doomed>>
taskVars == <<pc, autoReconnect, retries, delay, localInfo, timer>>
waitVars == <<wait, wval, write, listeners, orphans>>
callHist == <<got, order, expired>>
mutexVars == <<client, dispatched, lockOrder, grantOrder>>
helperVars == <<backOff, bulk, codec>>
mutexHist == <<mutexVars, helperVars>>
vars == <<pixelVars, gattVars, mutex, taskVars, waitVars, emitted, ended,
          sessions, since, lost, dropped, attempts, callHist, mutexHist>>

\* ------------------------------------------------------------------------
\* ConnectionEventValues / ConnectionEventReasonValues
\* ------------------------------------------------------------------------
ConnectionEventValues ==
  {"connecting", "connected", "failedToConnect", "ready", "disconnecting", "disconnected"}

ConnectionEventReasonValues == {"success", "timeout", "linkLoss"}

\* notifyConnEv(connEv, reason = Success): the event as a listener sees it, with
\* the Pixel's fields at the moment of the dispatch (c, s, i), the task that
\* raised it and, for Disconnected, the flags the handler was entered with.
Ev(e, r, t, c, s, i, pre) ==
  [ev |-> e, reason |-> r, by |-> t, connected |-> c, session |-> s, info |-> i,
   pre |-> pre]

NoPre == [connected |-> FALSE, reconnect |-> FALSE, session |-> FALSE, info |-> 0]

ConnEv(e, r, t, c, s, i) == Ev(e, r, t, c, s, i, NoPre)

\* The call or connect attempt of task t that the step ended: what it was, the
\* error it threw or the value it returned, and its history.
Ended(t, w, e, v) ==
  [task |-> t, what |-> w, err |-> e, value |-> v, timer |-> t \in timer,
   auto |-> autoReconnect[t], retries |-> retries[t], attempts |-> attempts[t],
   lost |-> lost[t], dropped |-> dropped[t], got |-> got[t], order |-> order[t], expired |-> expired[t]]

NoneEnded ==
  [task |-> 0, what |-> "none", err |-> "none", value |-> 0, timer |-> FALSE,
   auto |-> FALSE, retries |-> 0, attempts |-> 0, lost |-> FALSE, dropped |-> FALSE,
   got |-> 0, order |-> "none",
   expired |-> FALSE]

\* The name of the thrown error: the Pixel throws { name: "NetworkError", ... },
\* the transport rejects with a NetworkError DOMException, and the timer of
\* waitForMsg rejects with new Error("Timeout of ...").
ErrorName(e) ==
  CASE e \in {"NotReady", "Transport", "DisconnectedWhileIdentifying"} -> "NetworkError"
    [] e = "Timeout" -> "Error"
    [] OTHER -> "none"

\* ------------------------------------------------------------------------
\* Mutex
\* ------------------------------------------------------------------------
\* lock(): this.mutex = this.mutex.then(() => new Promise(executor)) appends a
\* link to the promise chain.
Lock(m, t) == Append(m, [task |-> t, held |-> FALSE])

Held(m) == {i \in 1..Len(m) : m[i].held}

CanGrantAny(m, i) == i \in 1..Len(m) /\ ~m[i].held

CanGrantLast(m, i) == i = Len(m) /\ i \in 1..Len(m) /\ Held(m) = {}

\* The fulfilment handler of link i runs once the promise of link i-1 is
\* resolved, that is once every earlier link was unlocked (unlocked links are
\* dropped from the chain).
CanGrant(m, i) == i = 1 /\ i \in 1..Len(m) /\ ~m[i].held

GrantAndRelease(m, i) == SelectSeq(m, LAMBDA l : l.task # m[i].task)

\* The handler of link i returns new Promise(executor): the executor resolves the
\* promise lock() returned, and the chain waits for the unlock of this link.
Grant(m, i) == [m EXCEPT ![i].held = TRUE]

\* unlock(): resolves the promise of the link of t.
Unlock(m, t) == SelectSeq(m, LAMBDA l : l.task # t)

KeepLock(m, t) == m

\* dispatch(): try { return await fn() } finally { unlock() }, when fn throws.
UnlockOnThrow(m, t) == Unlock(m, t)

\* ------------------------------------------------------------------------
\* Pixel helpers
\* ------------------------------------------------------------------------
\* get connected(): this._connected && (this._device.gatt?.connected ?? false)
Connected == _connected /\ gattConnected

\* get pixelId(): this._info?.pixelId ?? 0 (an IAmADie is modelled by its id)
pixelId == IF _info = 0 THEN 0 ELSE _info

\* get ready()
Ready == Connected /\ _info # 0

\* The application starts its calls on the first free task.
Free(t) == pc[t] = "idle" /\ \A u \in Tasks : u < t => pc[u] # "idle"

\* Task t runs a connect() call of the application.
ConnectCall(t) == t \notin timer /\ pc[t] \notin {"idle", "request", "send"}

\* The message type the call of task t waits for.
Expected(t) == IF pc[t] = "identify" THEN "IAmADie" ELSE "RollState"

InCall(t) == pc[t] \in {"identify", "request"}

\* Promise.all([waitForMsg(...), session.sendMessage(...)]) is settled: one of
\* the two is rejected, or both are resolved.
Settled(t) ==
  /\ InCall(t)
  /\ \/ write[t] = "fail"
     \/ wait[t] = "timedout"
     \/ write[t] = "ok" /\ wait[t] = "resolved"

\* A continuation is in the microtask queue.
Runnable ==
  \/ \E t \in Tasks : pc[t] = "dispatched"
  \/ \E t \in Tasks : Settled(t)
  \/ \E t \in Tasks : pc[t] = "send" /\ write[t] # "pending"
  \/ \E i \in 1..Len(mutex) : CanGrant(mutex, i)

\* A GATT operation of task t is pending on the link.
PendingGatt(t) ==
  \/ pc[t] \in {"getService", "getNotify", "getWrite", "subscribe"}
  \/ write[t] = "pending"

\* ------------------------------------------------------------------------
\* gattserverdisconnected handler
\* ------------------------------------------------------------------------
DisconnectReasonSwapped(c, r) ==
  IF c THEN "success" ELSE IF r THEN "linkLoss" ELSE "timeout"

\* let reason = Success; if (this._connected) reason = this._reconnect ? LinkLoss : Timeout
DisconnectReason(c, r) ==
  IF c THEN (IF r THEN "linkLoss" ELSE "timeout") ELSE "success"

ResetOnlyConnected(s) == [s EXCEPT !.connected = FALSE]

ResetKeepsInfo(s) == [s EXCEPT !.connected = FALSE, !.session = FALSE]

\* Reset internal state: _connected = false; _session = undefined; _info = undefined
ResetState(s) == [s EXCEPT !.connected = FALSE, !.session = FALSE, !.info = 0]

WantReconnectFlagOnly(r, i) == r

\* const reconnect = this._reconnect && this._info !== undefined
WantReconnect(r, i) == r /\ i # 0

\* The handler, entered with _connected = c; before lists the events the same
\* task dispatched before it.  The reconnect is scheduled with setTimeout on a
\* free task.
WaitsRejected(w) == [t \in Tasks |-> IF w[t] = "pending" THEN "timedout" ELSE w[t]]

\* the handler does nothing about the promises of waitForMsg
WaitsAfterLoss(w) == w

Handler(c, before) ==
  LET reason == DisconnectReason(c, _reconnect)
      after == ResetState([connected |-> c, session |-> _session, info |-> _info])
  IN /\ _connected' = after.connected
     /\ _session' = after.session
     /\ _info' = after.info
     /\ emitted' = before \o
          <<Ev("disconnected", reason, 0, after.connected, after.session, after.info,
               [connected |-> c, reconnect |-> _reconnect,
                session |-> _session, info |-> _info])>>
     /\ ended' = NoneEnded
     /\ sessions' = 0
     /\ since' = NoSince
     /\ lost' = [t \in Tasks |-> lost[t] \/ pc[t] \in {"identify", "dispatched"}]
     /\ dropped' = [t \in Tasks |-> dropped[t] \/ ConnectCall(t)]
     /\ IF WantReconnect(_reconnect, _info)
          THEN \E t \in Tasks : /\ Free(t)
                                /\ pc' = [pc EXCEPT ![t] = "scheduled"]
                                /\ timer' = timer \cup {t}
          ELSE pc' = pc /\ timer' = timer
     \* the link is closed: pending GATT operations will be rejected
     /\ gattConnected' = FALSE
     /\ notifying' = FALSE
     /\ doomed' = [t \in Tasks |-> doomed[t] \/ PendingGatt(t)]
     /\ wait' = WaitsAfterLoss(wait)
     /\ UNCHANGED <<_reconnect, mutex, autoReconnect, retries, delay, localInfo,
                    wval, write, listeners, orphans, attempts, callHist, mutexHist>>

\* The link is lost (not asked for by the application).
LinkLoss ==
  /\ gattConnected
  /\ ~Runnable
  /\ Handler(_connected, <<>>)

LinkOpenAlways == TRUE

\* const server = this._device.gatt; if (server?.connected)
LinkOpen == gattConnected

\* disconnect(): if (server?.connected) { notify Disconnecting;
\* this._connected = false; server.disconnect() }
Disconnect ==
  IF LinkOpen
    THEN Handler(FALSE, <<ConnEv("disconnecting", "success", 0, _connected, _session, _info)>>)
    ELSE /\ emitted' = <<>>
         /\ ended' = NoneEnded
         /\ UNCHANGED <<pixelVars, gattVars, mutex, taskVars, waitVars, sessions, since, lost, dropped, attempts,
                        callHist, mutexHist>>

\* ------------------------------------------------------------------------
\* connect() / reconnect() / doConnect
\* ------------------------------------------------------------------------
SessionUnchecked == TRUE

\* if (!session) throw NetworkError "not ready"  (sendMessage, sendAndWaitForResponse)
HasSession == _session

\* waitForMsg + session.sendMessage inside Promise.all: the one-shot listener and
\* the timer are registered, then the write is issued, in the same synchronous run.
StartCall(t) ==
  /\ wait' = [wait EXCEPT ![t] = "pending"]
  /\ listeners' = listeners \cup {t}
  /\ write' = [write EXCEPT ![t] = "pending"]
  /\ UNCHANGED <<wval, orphans>>

\* The call of t is over: its promises are forgotten.  A listener that is still
\* registered stays registered (with its timer) although its call is over.  The
\* timer of a resolved wait is dropped: its callback removes a listener that is
\* already removed and rejects a settled promise.
EndCall(t, ty) ==
  /\ wait' = [wait EXCEPT ![t] = "none"]
  /\ wval' = [wval EXCEPT ![t] = 0]
  /\ write' = [write EXCEPT ![t] = "none"]
  /\ listeners' = listeners \ {t}
  /\ orphans' = IF t \in listeners THEN orphans \cup {ty} ELSE orphans
  /\ doomed' = [doomed EXCEPT ![t] = FALSE]
  /\ got' = [got EXCEPT ![t] = 0]
  /\ order' = [order EXCEPT ![t] = "none"]
  /\ expired' = [expired EXCEPT ![t] = FALSE]

\* doConnect up to its first await
DoConnect(t) ==
  /\ attempts' = [attempts EXCEPT ![t] = attempts[t] + 1]
  /\ localInfo' = [localInfo EXCEPT ![t] = 0]
  /\ ended' = NoneEnded
  /\ IF ~gattConnected
       THEN /\ emitted' = <<ConnEv("connecting", "success", t, _connected, _session, _info)>>
            /\ pc' = [pc EXCEPT ![t] = "connectGatt"]
            /\ mutex' = mutex
       ELSE /\ emitted' = <<>>
            /\ pc' = [pc EXCEPT ![t] = "lock"]
            /\ mutex' = Lock(mutex, t)

RetriesAlways(ar) == AutoRetries

\* exponentialBackOff(autoReconnect ? 4 : 0, 2, doConnect, ...)
RetriesFor(ar) == IF ar THEN AutoRetries ELSE 0

\* reconnect(), entered with this._reconnect = ar
Reconnect(t, ar) ==
  /\ autoReconnect' = [autoReconnect EXCEPT ![t] = ar]
  /\ _reconnect' = FALSE
  /\ retries' = [retries EXCEPT ![t] = RetriesFor(ar)]
  /\ delay' = [delay EXCEPT ![t] = BaseDelay]
  /\ DoConnect(t)
  /\ UNCHANGED <<_connected, _session, _info, gattVars, timer, waitVars,
                 sessions, since, lost, dropped, callHist, mutexHist>>

\* connect(autoReconnect)
Connect(t, ar) ==
  /\ Free(t)
  /\ Reconnect(t, ar)

\* setTimeout(async () => { try { await this.reconnect() } catch {} })
ScheduledReconnect(t) ==
  /\ pc[t] = "scheduled"
  /\ ~Runnable
  /\ Reconnect(t, _reconnect)

RetriesKept(r) == r

\* exponentialBackOff(retries - 1, ...)
NextRetries(r) == r - 1

DelayKept(d) == d

\* exponentialBackOff(..., delay * 2, ...)
NextDelay(d) == d * 2

\* exponentialBackOff: the delay is over, recurse with retries - 1, delay * 2
RetryAttempt(t) ==
  /\ pc[t] = "backoff"
  /\ ~Runnable
  /\ retries' = [retries EXCEPT ![t] = NextRetries(retries[t])]
  /\ delay' = [delay EXCEPT ![t] = NextDelay(delay[t])]
  /\ DoConnect(t)
  /\ UNCHANGED <<pixelVars, gattVars, autoReconnect, timer, waitVars, sessions, since, lost, dropped,
                 callHist, mutexHist>>

FailsAtOnce(r) == TRUE

\* if (retries !== 0) { ... } else if (fail) { fail(error) }
CallsFail(r) == r = 0

Escapes(t) == FALSE

\* try { await this.reconnect() } catch { }: the timer callback catches the
\* rejection of its reconnect() call.
Swallowed(t) == t \in timer

\* doConnect rejected with error e: the catch block of exponentialBackOff.
\* if (retries !== 0) wait delay seconds and recurse; else fail(error), which
\* notifies FailedToConnect and rethrows: connect() rejects with e.
FailureLogged == "none"

\* this.notifyConnEv(ConnectionEventValues.FailedToConnect, ...)
FailureEvent == "failedToConnect"

Fail(t, e) ==
  /\ lost' = [lost EXCEPT ![t] = FALSE]
  /\ localInfo' = [localInfo EXCEPT ![t] = 0]
  /\ IF ~CallsFail(retries[t])
       THEN /\ pc' = [pc EXCEPT ![t] = "backoff"]
            /\ emitted' = <<>>
            /\ ended' = Ended(t, "attemptFailed", e, 0)
            /\ UNCHANGED <<autoReconnect, timer, retries, delay, attempts, dropped>>
       ELSE /\ pc' = [pc EXCEPT ![t] = "idle"]
            /\ emitted' = <<ConnEv(FailureEvent, "timeout", t, _connected, _session, _info)>>
            /\ ended' = Ended(t, IF Swallowed(t) THEN "reconnectFailed" ELSE "connectRejected",
                               e, 0)
            /\ timer' = timer \ {t}
            /\ attempts' = [attempts EXCEPT ![t] = 0]
            /\ dropped' = [dropped EXCEPT ![t] = FALSE]
            /\ autoReconnect' = [autoReconnect EXCEPT ![t] = FALSE]
            /\ retries' = [retries EXCEPT ![t] = 0]
            /\ delay' = [delay EXCEPT ![t] = 0]

\* await server.connect() resolves
GattConnectOk(t) ==
  /\ pc[t] = "connectGatt"
  /\ ~Runnable
  /\ gattConnected' = TRUE
  /\ _connected' = TRUE
  /\ emitted' = <<ConnEv("connected", "success", t, TRUE, _session, _info)>>
  /\ ended' = NoneEnded
  /\ mutex' = Lock(mutex, t)
  /\ pc' = [pc EXCEPT ![t] = "lock"]
  /\ since' = [since EXCEPT !.connected = TRUE]
  /\ UNCHANGED <<_reconnect, _session, _info, notifying, doomed, autoReconnect, timer, retries,
                 delay, localInfo, waitVars, sessions, lost, dropped, attempts, callHist, mutexHist>>

\* await server.connect() rejects
GattConnectFail(t) ==
  /\ pc[t] = "connectGatt"
  /\ ~Runnable
  /\ Fail(t, "Transport")
  /\ UNCHANGED <<pixelVars, gattVars, mutex, waitVars, sessions, since, callHist, mutexHist>>

\* The lock() promise of t resolves and the dispatched function starts:
\* if (!this._session) getPrimaryService(...), else nothing to do.
GrantLock(t) ==
  /\ pc[t] = "lock"
  /\ \E i \in 1..Len(mutex) :
       /\ CanGrant(mutex, i)
       /\ mutex[i].task = t
       /\ IF ~_session
            THEN /\ mutex' = Grant(mutex, i)
                 /\ pc' = [pc EXCEPT ![t] = "getService"]
                 \* getPrimaryService on a closed link is rejected
                 /\ doomed' = [doomed EXCEPT ![t] = ~gattConnected]
            ELSE /\ mutex' = Unlock(mutex, t)
                 /\ pc' = [pc EXCEPT ![t] = "dispatched"]
                 /\ doomed' = doomed
  /\ emitted' = <<>>
  /\ ended' = NoneEnded
  /\ UNCHANGED <<pixelVars, gattConnected, notifying, autoReconnect, timer, retries, delay, localInfo,
                 waitVars, sessions, since, lost, dropped, attempts, callHist, mutexHist>>

\* getPrimaryService / getCharacteristic(notify) resolve
DiscoveryOk(t) ==
  /\ pc[t] \in {"getService", "getNotify"}
  /\ ~Runnable
  /\ ~doomed[t]
  /\ pc' = [pc EXCEPT ![t] = IF pc[t] = "getService" THEN "getNotify" ELSE "getWrite"]
  /\ emitted' = <<>>
  /\ ended' = NoneEnded
  /\ UNCHANGED <<pixelVars, gattVars, mutex, autoReconnect, timer, retries, delay, localInfo,
                 waitVars, sessions, since, lost, dropped, attempts, callHist, mutexHist>>

\* getCharacteristic(write) resolves: this._session = new Session(...), then
\* this._session.subscribe(...) is called
GetWriteOk(t) ==
  /\ pc[t] = "getWrite"
  /\ ~Runnable
  /\ ~doomed[t]
  /\ _session' = TRUE
  /\ sessions' = sessions + 1
  /\ since' = since
  /\ pc' = [pc EXCEPT ![t] = "subscribe"]
  /\ emitted' = <<>>
  /\ ended' = NoneEnded
  /\ UNCHANGED <<_connected, _reconnect, _info, gattVars, mutex, autoReconnect, timer,
                 retries, delay, localInfo, waitVars, lost, dropped, attempts, callHist, mutexHist>>

\* A discovery call or startNotifications rejects: the dispatched function throws
GattFail(t) ==
  /\ pc[t] \in {"getService", "getNotify", "getWrite", "subscribe"}
  /\ ~Runnable
  /\ mutex' = UnlockOnThrow(mutex, t)
  /\ doomed' = [doomed EXCEPT ![t] = FALSE]
  /\ Fail(t, "Transport")
  /\ UNCHANGED <<pixelVars, gattConnected, notifying, waitVars, sessions, since, callHist,
                 mutexHist>>

\* startNotifications resolves, then sendAndWaitForResponse(WhoAreYou, IAmADie)
SubscribeOk(t) ==
  /\ pc[t] = "subscribe"
  /\ ~Runnable
  /\ ~doomed[t]
  /\ notifying' = TRUE
  /\ IF HasSession
       THEN /\ StartCall(t)
            /\ pc' = [pc EXCEPT ![t] = "identify"]
            /\ emitted' = <<>>
            /\ ended' = NoneEnded
            /\ UNCHANGED <<mutex, autoReconnect, timer, retries, delay, localInfo, lost, dropped, attempts>>
       ELSE /\ mutex' = UnlockOnThrow(mutex, t)
            /\ Fail(t, "NotReady")
            /\ UNCHANGED waitVars
  /\ UNCHANGED <<pixelVars, gattConnected, doomed, sessions, since, callHist, mutexHist>>

StoreAlways == TRUE

\* if (!this._session) throw NetworkError "got disconnected while identifying"
StillHasSession == _session

\* The identification call is settled; the dispatched function stores the
\* reply or throws, and dispatch unlocks.
IdentifySettle(t) ==
  /\ pc[t] = "identify"
  /\ Settled(t)
  /\ EndCall(t, "IAmADie")
  /\ IF write[t] = "ok" /\ wait[t] = "resolved"
       THEN IF StillHasSession
              THEN /\ _info' = wval[t]
                   /\ localInfo' = [localInfo EXCEPT ![t] = wval[t]]
                   /\ mutex' = Unlock(mutex, t)
                   /\ pc' = [pc EXCEPT ![t] = "dispatched"]
                   /\ emitted' = <<>>
                   /\ ended' = Ended(t, "identified", "none", wval[t])
                   /\ UNCHANGED <<autoReconnect, timer, retries, delay, lost, dropped, attempts>>
              ELSE /\ mutex' = UnlockOnThrow(mutex, t)
                   /\ Fail(t, "DisconnectedWhileIdentifying")
                   /\ UNCHANGED _info
       ELSE /\ mutex' = UnlockOnThrow(mutex, t)
            /\ Fail(t, IF write[t] = "fail" THEN "Transport" ELSE "Timeout")
            /\ UNCHANGED _info
  /\ UNCHANGED <<_connected, _reconnect, _session, gattConnected, notifying,
                 sessions, since, mutexHist>>

IdentifiedAlways(info, current) == TRUE

\* if (info && this._info === info)
Identified(info, current) == info # 0 /\ current = info

\* After the dispatch: if (info && this._info === info) notify Ready; doConnect
\* resolves, the success callback restores this._reconnect and connect() resolves.
AfterDispatch(t) ==
  /\ pc[t] = "dispatched"
  /\ emitted' = IF Identified(localInfo[t], _info)
                  THEN <<ConnEv("ready", "success", t, _connected, _session, _info)>>
                  ELSE <<>>
  /\ ended' = Ended(t, "connectResolved", "none", localInfo[t])
  /\ _reconnect' = autoReconnect[t]
  /\ pc' = [pc EXCEPT ![t] = "idle"]
  /\ autoReconnect' = [autoReconnect EXCEPT ![t] = FALSE]
  /\ timer' = timer \ {t}
  /\ attempts' = [attempts EXCEPT ![t] = 0]
  /\ retries' = [retries EXCEPT ![t] = 0]
  /\ delay' = [delay EXCEPT ![t] = 0]
  /\ localInfo' = [localInfo EXCEPT ![t] = 0]
  /\ lost' = [lost EXCEPT ![t] = FALSE]
  /\ dropped' = [dropped EXCEPT ![t] = FALSE]
  /\ UNCHANGED <<_connected, _session, _info, gattVars, mutex, waitVars, sessions, since,
                 callHist, mutexHist>>

\* ------------------------------------------------------------------------
\* sendMessage / sendAndWaitForResponse / waitForMsg / onValueChanged
\* ------------------------------------------------------------------------
ListeningAfterWrite(t) == t \in listeners /\ write[t] = "ok"

\* addMessageListener(expectedMsgType, onMessage, {once: true}) was called by
\* the call of t and the listener is still registered.
Listening(t) == t \in listeners

KeepListener(ls, t) == ls

\* waitForMsg timer: this.removeMessageListener(expectedMsgType, onMessage)
RemoveListener(ls, t) == ls \ {t}

\* writeValueWithResponse resolves
WriteOk(t) ==
  /\ write[t] = "pending"
  /\ ~Runnable
  /\ ~doomed[t]
  /\ write' = [write EXCEPT ![t] = "ok"]
  /\ emitted' = <<>>
  /\ ended' = NoneEnded
  /\ UNCHANGED <<pixelVars, gattVars, mutex, taskVars, wait, wval, listeners, orphans,
                 sessions, since, lost, dropped, attempts, callHist, mutexHist>>

\* writeValueWithResponse rejects
WriteFail(t) ==
  /\ write[t] = "pending"
  /\ ~Runnable
  /\ write' = [write EXCEPT ![t] = "fail"]
  /\ doomed' = [doomed EXCEPT ![t] = FALSE]
  /\ emitted' = <<>>
  /\ ended' = NoneEnded
  /\ UNCHANGED <<pixelVars, gattConnected, notifying, mutex, taskVars, wait, wval, listeners,
                 orphans, sessions, since, lost, dropped, attempts, callHist, mutexHist>>

\* onValueChanged: a notification with a message of type ty and payload v is
\* dispatched to the listeners of that type; a one-shot listener is removed
\* and resolves its promise (a settled promise stays as it is).
MsgArrive(ty, v) ==
  /\ gattConnected
  /\ notifying
  /\ ~Runnable
  /\ LET hit == {t \in Tasks : Listening(t) /\ Expected(t) = ty}
         during == {t \in Tasks : InCall(t) /\ Expected(t) = ty /\ got[t] = 0}
     IN /\ wait' = [t \in Tasks |-> IF t \in hit /\ wait[t] = "pending"
                                      THEN "resolved" ELSE wait[t]]
        /\ wval' = [t \in Tasks |-> IF t \in hit /\ wait[t] = "pending" THEN v ELSE wval[t]]
        /\ listeners' = listeners \ {t \in listeners : Expected(t) = ty}
        /\ got' = [t \in Tasks |-> IF t \in during THEN v ELSE got[t]]
        /\ order' = [t \in Tasks |-> IF t \in during
                       THEN (IF write[t] = "pending" THEN "replyFirst" ELSE "writeFirst")
                       ELSE order[t]]
        /\ expired' = expired
        /\ since' = [since EXCEPT !.iAmADie = @ \/ (ty = "IAmADie" /\ hit # {})]
  /\ orphans' = orphans \ {ty}
  /\ emitted' = <<>>
  /\ ended' = NoneEnded
  /\ UNCHANGED <<pixelVars, gattVars, mutex, taskVars, write, sessions, lost, dropped, attempts, mutexHist>>

TimeoutWithoutReject(t) ==
  /\ wait[t] = "pending"
  /\ ~Runnable
  /\ listeners' = RemoveListener(listeners, t)
  /\ emitted' = <<>>
  /\ ended' = NoneEnded
  /\ UNCHANGED <<pixelVars, gattVars, mutex, taskVars, wait, wval, write, orphans, sessions,
                 since, lost, dropped, attempts, callHist, mutexHist>>

\* The timer of waitForMsg expires: the listener is removed and the promise
\* is rejected with Error("Timeout of ...ms waiting on message ...").
Timeout(t) ==
  /\ wait[t] = "pending"
  /\ ~Runnable
  /\ listeners' = RemoveListener(listeners, t)
  /\ wait' = [wait EXCEPT ![t] = "timedout"]
  /\ emitted' = <<>>
  /\ ended' = NoneEnded
  /\ UNCHANGED <<pixelVars, gattVars, mutex, taskVars, wval, write, orphans, sessions, since, lost, dropped, attempts,
                 callHist, mutexHist>>

\* The timer of waitForMsg expires after a message resolved its promise, while
\* the write of the call is still pending: the listener is gone already and
\* reject() has no effect on a settled promise.  It changes nothing in the
\* program; it is recorded for the calls of the application.
LateTimeout(t) ==
  /\ pc[t] = "request"
  /\ wait[t] = "resolved"
  /\ ~expired[t]
  /\ ~Runnable
  /\ expired' = [expired EXCEPT ![t] = TRUE]
  /\ emitted' = <<>>
  /\ ended' = NoneEnded
  /\ UNCHANGED <<pixelVars, gattVars, mutex, taskVars, waitVars, sessions, since, lost, dropped,
                 attempts, got, order, mutexHist>>

\* The timer of a wait whose call is over expires.
OrphanTimeout(ty) ==
  /\ ty \in orphans
  /\ ~Runnable
  /\ orphans' = orphans \ {ty}
  /\ emitted' = <<>>
  /\ ended' = NoneEnded
  /\ UNCHANGED <<pixelVars, gattVars, mutex, taskVars, wait, wval, write, listeners,
                 sessions, since, lost, dropped, attempts, callHist, mutexHist>>

\* sendAndWaitForResponse(RequestRollState, RollState) called by the application
Request(t) ==
  /\ Free(t)
  /\ IF HasSession
       THEN /\ StartCall(t)
            /\ pc' = [pc EXCEPT ![t] = "request"]
            /\ ended' = NoneEnded
       ELSE /\ pc' = pc
            /\ ended' = Ended(t, "requestRejected", "NotReady", 0)
            /\ UNCHANGED waitVars
  /\ emitted' = <<>>
  /\ UNCHANGED <<pixelVars, gattVars, mutex, autoReconnect, timer, retries, delay, localInfo,
                 sessions, since, lost, dropped, attempts, callHist, mutexHist>>

\* await Promise.all(...) of the application's call is settled
RequestSettle(t) ==
  /\ pc[t] = "request"
  /\ Settled(t)
  /\ EndCall(t, "RollState")
  /\ pc' = [pc EXCEPT ![t] = "idle"]
  /\ ended' = IF write[t] = "ok" /\ wait[t] = "resolved"
                THEN Ended(t, "requestResolved", "none", wval[t])
                ELSE Ended(t, "requestRejected",
                           IF write[t] = "fail" THEN "Transport" ELSE "Timeout", 0)
  /\ emitted' = <<>>
  /\ UNCHANGED <<pixelVars, gattConnected, notifying, mutex, autoReconnect, timer, retries, delay,
                 localInfo, sessions, since, lost, dropped, attempts, mutexHist>>

\* sendMessage(msg) called by the application
Send(t) ==
  /\ Free(t)
  /\ IF HasSession
       THEN /\ write' = [write EXCEPT ![t] = "pending"]
            /\ pc' = [pc EXCEPT ![t] = "send"]
            /\ ended' = NoneEnded
       ELSE /\ pc' = pc
            /\ ended' = Ended(t, "sendRejected", "NotReady", 0)
            /\ write' = write
  /\ emitted' = <<>>
  /\ UNCHANGED <<pixelVars, gattVars, mutex, autoReconnect, timer, retries, delay, localInfo,
                 wait, wval, listeners, orphans, sessions, since, lost, dropped, attempts, callHist, mutexHist>>

\* await session.sendMessage(msg) of sendMessage is settled
SendSettle(t) ==
  /\ pc[t] = "send"
  /\ write[t] \in {"ok", "fail"}
  /\ write' = [write EXCEPT ![t] = "none"]
  /\ pc' = [pc EXCEPT ![t] = "idle"]
  /\ ended' = IF write[t] = "ok"
                THEN Ended(t, "sendResolved", "none", 0)
                ELSE Ended(t, "sendRejected", "Transport", 0)
  /\ emitted' = <<>>
  /\ UNCHANGED <<pixelVars, gattVars, mutex, autoReconnect, timer, retries, delay, localInfo,
                 wait, wval, listeners, orphans, sessions, since, lost, dropped, attempts, callHist, mutexHist>>

\* ------------------------------------------------------------------------
\* A Mutex on its own, with clients that call dispatch(fn)
\* ------------------------------------------------------------------------
pixelOnly == <<pixelVars, gattVars, taskVars, waitVars, emitted, ended, sessions, since, lost, dropped,
               attempts, callHist>>

pixelSide == <<pixelOnly, helperVars>>

NoDispatch == [client |-> 0, threw |-> FALSE, outcome |-> "none"]

\* dispatch(fn) up to its first await: const unlock = await this.lock()
Dispatch(c) ==
  /\ client[c] = "idle"
  /\ Len(lockOrder) < MaxCalls
  /\ mutex' = Lock(mutex, c)
  /\ lockOrder' = Append(lockOrder, c)
  /\ client' = [client EXCEPT ![c] = "lock"]
  /\ dispatched' = NoDispatch
  /\ UNCHANGED <<pixelSide, grantOrder>>

\* The promise of lock() resolves: fn() is called and runs to its first await
FnStart(c) ==
  /\ client[c] = "lock"
  /\ \E i \in 1..Len(mutex) :
       /\ CanGrant(mutex, i)
       /\ mutex[i].task = c
       /\ mutex' = Grant(mutex, i)
  /\ grantOrder' = Append(grantOrder, c)
  /\ client' = [client EXCEPT ![c] = "run"]
  /\ dispatched' = NoDispatch
  /\ UNCHANGED <<pixelSide, lockOrder>>

\* fn resumes after an await and suspends at the next one
FnAwait(c) ==
  /\ client[c] = "run"
  /\ client' = [client EXCEPT ![c] = "resumed"]
  /\ dispatched' = NoDispatch
  /\ UNCHANGED <<pixelSide, mutex, lockOrder, grantOrder>>

\* fn resolves: finally { unlock() }, dispatch resolves
FnReturn(c) ==
  /\ client[c] \in {"run", "resumed"}
  /\ mutex' = Unlock(mutex, c)
  /\ client' = [client EXCEPT ![c] = "idle"]
  /\ dispatched' = [client |-> c, threw |-> FALSE, outcome |-> "resolved"]
  /\ UNCHANGED <<pixelSide, lockOrder, grantOrder>>

\* fn throws or rejects: finally { unlock() }, dispatch rejects with the error
FnThrow(c) ==
  /\ client[c] \in {"run", "resumed"}
  /\ mutex' = UnlockOnThrow(mutex, c)
  /\ client' = [client EXCEPT ![c] = "idle"]
  /\ dispatched' = [client |-> c, threw |-> TRUE, outcome |-> "rejected"]
  /\ UNCHANGED <<pixelSide, lockOrder, grantOrder>>

MutexNext ==
  \/ \E c \in Clients : Dispatch(c)
  \/ \E c \in Clients : FnStart(c)
  \/ \E c \in Clients : FnAwait(c)
  \/ \E c \in Clients : FnReturn(c)
  \/ \E c \in Clients : FnThrow(c)

\* ------------------------------------------------------------------------
\* exponentialBackOff on its own, with an attempt function that resolves or
\* rejects as it likes and callbacks that return or throw
\* ------------------------------------------------------------------------
notBackOff == <<pixelOnly, mutex, mutexVars, bulk, codec>>

Errors == {"NetworkError", "Error"}

NoBackOff ==
  [pc |-> "idle", R |-> 0, d |-> 0, retries |-> 0, delay |-> 0, calls |-> 0,
   resolved |-> 0, result |-> 0, outcome |-> "pending", errs |-> <<>>, waits |-> <<>>, successArgs |-> <<>>, failArgs |-> <<>>]

\* exponentialBackOff(R, d, toTry, success, fail) up to await toTry()
BackOffCall(R, d) ==
  /\ backOff.pc = "idle"
  /\ backOff' = [NoBackOff EXCEPT !.pc = "try", !.R = R, !.d = d, !.retries = R,
                                  !.delay = d, !.calls = 1]
  /\ UNCHANGED notBackOff

\* catch (error): wait and recurse while retries are left, else fail(error),
\* which returns or throws
Catch(b, e, failThrows) ==
  IF ~CallsFail(b.retries)
    THEN [b EXCEPT !.pc = "wait", !.errs = Append(@, e)]
    ELSE [b EXCEPT !.pc = "done", !.errs = Append(@, e), !.failArgs = Append(@, e),
                   !.outcome = IF failThrows THEN "rejected" ELSE "resolved"]

\* toTry() resolves with v and success(result) returns, or throws inside the
\* try block
ToTryResolves(v, successThrows, failThrows) ==
  /\ backOff.pc = "try"
  /\ LET called == [backOff EXCEPT !.result = v, !.resolved = @ + 1,
                                   !.successArgs = Append(@, v)]
     IN  backOff' = IF successThrows
                      THEN Catch(called, "CallbackError", failThrows)
                      ELSE [called EXCEPT !.pc = "done", !.outcome = "resolved"]
  /\ UNCHANGED notBackOff

\* toTry() rejects with e
ToTryRejects(e, failThrows) ==
  /\ backOff.pc = "try"
  /\ backOff' = Catch(backOff, e, failThrows)
  /\ UNCHANGED notBackOff

\* await delay_(delay * 1000) is over: the recursive call, up to await toTry()
DelayOver ==
  /\ backOff.pc = "wait"
  /\ backOff' = [backOff EXCEPT !.pc = "try", !.waits = Append(@, backOff.delay),
                                !.retries = NextRetries(@), !.delay = NextDelay(@),
                                !.calls = @ + 1]
  /\ UNCHANGED notBackOff

BackOffNext ==
  \/ \E R \in 0..MaxRetries, d \in 1..MaxDelay : BackOffCall(R, d)
  \/ \E v \in Payloads, successThrows, failThrows \in BOOLEAN :
       ToTryResolves(v, successThrows, failThrows)
  \/ \E e \in Errors, failThrows \in BOOLEAN : ToTryRejects(e, failThrows)
  \/ DelayOver

\* ------------------------------------------------------------------------
\* One data transfer on its own: uploadBulkData, uploadBulkDataWithAck or one
\* of the data set transfers that negotiate and then upload. The peripheral
\* acknowledges each message it is sent, and each sendAndWaitForResponse ends
\* with the reply, its timeout or a failed write.
\* ------------------------------------------------------------------------
notBulk == <<pixelOnly, mutex, mutexVars, backOff, codec>>

InstantOps == {"playTestAnimation", "transferInstantAnimations"}

\* TransferInstantAnimationsSetAckTypeValues, and a value that is neither
\* Download nor UpToDate
AckTypes == {"Download", "UpToDate", "NoMemory"}

\* the lengths of the byte arrays of the data sets transferred: one short
\* chunk, one full chunk, two chunks, three chunks
DataSetSizes == {1, MaxMessageSize, MaxMessageSize + 1, MaxBytes}

NoBulk ==
  [pc |-> "idle", op |-> "none", session |-> FALSE, dataLen |-> 0, N |-> 0,
   remainingSize |-> 0, offset |-> 0, sent |-> <<>>, waiting |-> "none", writing |-> FALSE,
   radio |-> <<>>, acks |-> 0, progress |-> <<>>, err |-> "none", message |-> "none",
   prepared |-> 0, replied |-> FALSE, ackType |-> "none", result |-> FALSE, uploads |-> 0, listening |-> FALSE,
   programmingFinished |-> FALSE, finished |-> 0, heardAt |-> "none"]

Min(a, b) == IF a < b THEN a ELSE b

ChunkSizeFull(remainingSize) == MaxMessageSize

\* dataMsg.size = Math.min(remainingSize, Constants.MaxMessageSize)
ChunkSize(remainingSize) == Min(remainingSize, MaxMessageSize)

\* an exception leaves the call: the finally block of uploadBulkDataWithAck
\* removes the listener of the finished notification
Throw(b, name, message) ==
  [b EXCEPT !.pc = "failed", !.err = name, !.message = message, !.listening = FALSE,
            !.waiting = "none", !.writing = FALSE]

\* sendAndWaitForResponse(msg, responseType) up to its await: it throws when
\* there is no session, else the listener is registered, the write is issued
\* and the peripheral will answer
SendAndWait(b, msg, responseType) ==
  IF ~b.session
    THEN Throw(b, "NetworkError", "not ready")
    ELSE [b EXCEPT !.sent = Append(@, msg), !.waiting = responseType, !.writing = TRUE,
                   !.radio = Append(@, responseType)]

\* uploadBulkData(data, progressCallback) up to the await of BulkSetupAck
StartUpload(b, N) ==
  SendAndWait([b EXCEPT !.pc = "setup", !.N = N, !.remainingSize = N, !.progress = <<0>>],
              [type |-> "BulkSetup", size |-> N, offset |-> 0], "BulkSetupAck")

\* a call of uploadBulkData
UploadBulkData(N, session) ==
  /\ bulk.pc = "idle"
  /\ bulk' = StartUpload([NoBulk EXCEPT !.op = "uploadBulkData", !.session = session,
                                        !.dataLen = N], N)
  /\ UNCHANGED notBulk

\* uploadBulkDataWithAck(ackType, data, progressCallback) up to the first await
\* of uploadBulkData: the listener is added first
StartUploadWithAck(b) ==
  StartUpload([b EXCEPT !.listening = TRUE, !.uploads = @ + 1], b.dataLen)

\* a call of uploadBulkDataWithAck
UploadBulkDataWithAck(N, session) ==
  /\ bulk.pc = "idle"
  /\ bulk' = StartUploadWithAck([NoBulk EXCEPT !.op = "uploadBulkDataWithAck",
                                               !.session = session, !.dataLen = N])
  /\ UNCHANGED notBulk

\* the message that opens the negotiation of a data set transfer and the type
\* of its acknowledgement
Negotiation(op) ==
  CASE op = "transferDataSet" ->
         [msg |-> "TransferAnimationSet", ack |-> "TransferAnimationSetAck"]
    [] op = "playTestAnimation" ->
         [msg |-> "TransferTestAnimationSet", ack |-> "TransferTestAnimationSetAck"]
    [] op = "transferInstantAnimations" ->
         [msg |-> "TransferInstantAnimationSet", ack |-> "TransferInstantAnimationSetAck"]

NegotiationAcks ==
  {"TransferAnimationSetAck", "TransferTestAnimationSetAck", "TransferInstantAnimationSetAck"}

\* transferDataSet, playTestAnimation or transferInstantAnimations up to the
\* await of sendAndWaitForResponseObj
Transfer(op, N, session) ==
  /\ bulk.pc = "idle"
  /\ bulk' = IF ~session
               THEN Throw([NoBulk EXCEPT !.op = op, !.dataLen = N], "NetworkError", "not ready")
               ELSE [NoBulk EXCEPT !.pc = "negotiate", !.op = op, !.session = TRUE,
                                   !.dataLen = N, !.prepared = 1,
                                   !.waiting = Negotiation(op).ack, !.writing = TRUE,
                                   !.radio = <<Negotiation(op).ack>>]
  /\ UNCHANGED notBulk

\* the write of the message completes
BulkWriteOk ==
  /\ bulk.pc \in {"negotiate", "setup", "data"}
  /\ bulk.writing
  /\ bulk.session
  /\ bulk' = [bulk EXCEPT !.writing = FALSE]
  /\ UNCHANGED notBulk

\* the write of the message fails: sendAndWaitForResponse rejects
BulkWriteFail ==
  /\ bulk.pc \in {"negotiate", "setup", "data"}
  /\ bulk.writing
  /\ bulk' = Throw(bulk, "NetworkError", "write failed")
  /\ UNCHANGED notBulk

\* an acknowledgement of a bulk message arrives: onValueChanged gives it to the
\* listener of its type
BulkAckArrive ==
  /\ bulk.radio # <<>>
  /\ Head(bulk.radio) \notin NegotiationAcks
  /\ bulk' = IF bulk.waiting = Head(bulk.radio)
               THEN [bulk EXCEPT !.radio = Tail(@), !.waiting = "none", !.acks = @ + 1]
               ELSE [bulk EXCEPT !.radio = Tail(@)]
  /\ UNCHANGED notBulk

\* the acknowledgement of the negotiation arrives, with its ackType
\* (TransferTestAnimationSetAck, TransferInstantAnimationSetAck) or its result
\* (TransferAnimationSetAck)
NegotiationAckArrive(ackType, result) ==
  /\ bulk.radio # <<>>
  /\ Head(bulk.radio) \in NegotiationAcks
  /\ bulk' = IF bulk.waiting = Head(bulk.radio)
               THEN [bulk EXCEPT !.radio = Tail(@), !.waiting = "none", !.replied = TRUE,
                                 !.ackType = IF bulk.op \in InstantOps THEN ackType ELSE @,
                                 !.result = IF bulk.op \in InstantOps THEN @ ELSE result]
               ELSE [bulk EXCEPT !.radio = Tail(@)]
  /\ UNCHANGED notBulk

\* the link is lost during the transfer: the handler clears the session, and
\* the write in progress can only fail
BulkLinkLoss ==
  /\ bulk.pc \in {"negotiate", "setup", "data", "finishing"}
  /\ bulk.session
  /\ bulk' = [bulk EXCEPT !.session = FALSE, !.radio = <<>>]
  /\ UNCHANGED notBulk

Resent(b) ==
  [b EXCEPT !.sent = Append(@, b.sent[Len(b.sent)]), !.radio = Append(@, b.waiting)]

\* the timeout of waitForMsg rejects sendAndWaitForResponse, and nothing
\* catches it before the caller of the transfer
TimedOut(b) == Throw(b, "Error", "Timeout")

\* waitForMsg times out
BulkTimeout ==
  /\ bulk.pc \in {"negotiate", "setup", "data"}
  /\ bulk.waiting # "none"
  /\ bulk' = TimedOut(bulk)
  /\ UNCHANGED notBulk

Written(b) == ~b.writing

\* await this.sendAndWaitForResponse(...) resolves: the reply was received and
\* the write completed
Acknowledged(b) == b.waiting = "none" /\ ~b.writing

DownloadsUnlessUpToDate(ackType) == ackType # "UpToDate"

\* case TransferInstantAnimationsSetAckTypeValues.Download
Downloads(ackType) == ackType = "Download"

AcceptedAlways(result) == TRUE

\* if (transferAck.result)
Accepted(result) == result

\* the negotiation is acknowledged: upload, return or throw
NegotiationContinue ==
  /\ bulk.pc = "negotiate"
  /\ Acknowledged(bulk)
  /\ bulk' = IF bulk.op = "transferDataSet"
               THEN IF Accepted(bulk.result)
                      THEN StartUploadWithAck(bulk)
                      ELSE Throw(bulk, "NetworkError", "not enough memory")
               ELSE IF Downloads(bulk.ackType)
                      THEN StartUploadWithAck(bulk)
                      ELSE IF bulk.ackType = "UpToDate"
                             THEN [bulk EXCEPT !.pc = "returned"]
                             ELSE Throw(bulk, "NetworkError", "unknown ackType")
  /\ UNCHANGED notBulk

ReportedEarly(offset, size) == offset

\* offset += dataMsg.size; progressCallback?.(offset / data.byteLength): the
\* numerator of the value reported after a chunk
Reported(offset, size) == offset + size

\* after BulkSetupAck: offset = 0 and the loop test; after BulkDataAck: the end
\* of the loop body and the loop test; then the next BulkData or the return
BulkContinue ==
  /\ bulk.pc \in {"setup", "data"}
  /\ Acknowledged(bulk)
  /\ LET size == bulk.sent[Len(bulk.sent)].size
         b == IF bulk.pc = "data"
                THEN [bulk EXCEPT !.remainingSize = @ - size, !.offset = @ + size,
                                  !.progress = Append(@, Reported(bulk.offset, size))]
                ELSE bulk
     IN  bulk' = IF b.remainingSize > 0
                   THEN SendAndWait([b EXCEPT !.pc = "data"],
                                    [type |-> "BulkData", size |-> ChunkSize(b.remainingSize),
                                     offset |-> b.offset],
                                    "BulkDataAck")
                   ELSE [b EXCEPT !.pc = "done"]
  /\ UNCHANGED notBulk

\* uploadBulkDataWithAck after uploadBulkData has returned: resolve at once when
\* programmingFinished, else start the timer and set stopWaiting
AfterUpload ==
  /\ bulk.pc = "done"
  /\ bulk.op # "uploadBulkData"
  /\ bulk' = IF bulk.programmingFinished
               THEN [bulk EXCEPT !.pc = "returned", !.listening = FALSE]
               ELSE [bulk EXCEPT !.pc = "finishing"]
  /\ UNCHANGED notBulk

HeardWhenWaiting(b) == b.listening /\ b.pc = "finishing"

\* the listener of the finished notification is registered
Heard(b) == b.listening

\* the peripheral sends the finished notification of the transfer: onFinished,
\* added with once, sets programmingFinished and calls stopWaiting when set
FinishedArrive ==
  /\ bulk.pc \in {"setup", "data", "finishing"}
  /\ bulk.op # "uploadBulkData"
  /\ bulk.session
  /\ bulk.finished = 0
  /\ bulk' = IF Heard(bulk)
               THEN [bulk EXCEPT !.finished = 1, !.programmingFinished = TRUE,
                                 !.listening = FALSE, !.heardAt = bulk.pc,
                                 !.pc = IF @ = "finishing" THEN "returned" ELSE @]
               ELSE [bulk EXCEPT !.finished = 1]
  /\ UNCHANGED notBulk

\* the timer of AckMessageTimeout rejects the wait for the finished notification
FinishedTimeout ==
  /\ bulk.pc = "finishing"
  /\ bulk' = Throw(bulk, "NetworkError", "confirm programming")
  /\ UNCHANGED notBulk

BulkNext ==
  \/ \E N \in 0..MaxBytes, session \in BOOLEAN : UploadBulkData(N, session)
  \/ \E N \in 0..MaxBytes, session \in BOOLEAN : UploadBulkDataWithAck(N, session)
  \/ \E op \in InstantOps \cup {"transferDataSet"}, N \in DataSetSizes, session \in BOOLEAN :
       Transfer(op, N, session)
  \/ \E ackType \in AckTypes, result \in BOOLEAN : NegotiationAckArrive(ackType, result)
  \/ NegotiationContinue
  \/ BulkLinkLoss
  \/ BulkWriteOk
  \/ BulkWriteFail
  \/ BulkAckArrive
  \/ BulkTimeout
  \/ BulkContinue
  \/ AfterUpload
  \/ FinishedArrive
  \/ FinishedTimeout

\* ------------------------------------------------------------------------
\* serializeMessage and deserializeMessage on their own. A buffer is a sequence
\* of bytes; a MessageOrType is a record: [number |-> n] for a bare message
\* type, and a record with its type and its properties for a Message object.
\* ------------------------------------------------------------------------
notCodec == <<pixelOnly, mutex, mutexVars, backOff, bulk>>

\* the values of MessageTypeValues that have a class
MessageTypeValues ==
  [IAmADie |-> 2, RollState |-> 3, PlaySound |-> 22, Blink |-> 29, BatteryLevel |-> 34,
   Rssi |-> 36]

\* values of the properties of the messages serialized: 8, 16 and 32 bit
\* numbers (the latter below 2^31; a float is modelled by its 32 bits) and
\* version strings (by their character codes)
U8s == {0, 1, 255}

U16s == {0, 258, 65535}

U32s == {0, 16909060, 2147483647}

Versions == {<<>>, <<49, 46, 48>>}

\* the objects of the classes IAmADie, RollState, PlaySound, Blink,
\* BatteryLevel and Rssi
IAmADies ==
  {[type |-> MessageTypeValues.IAmADie, diceType |-> a, designAndColor |-> b,
    dataSetHash |-> c, pixelId |-> d, flashSize |-> e, version |-> v] :
     a \in U8s, b \in {0, 1}, c \in U32s, d \in U32s, e \in U16s, v \in Versions}

RollStates ==
  {[type |-> MessageTypeValues.RollState, state |-> a, face |-> b] : a \in 0..4, b \in 1..20}

PlaySounds == {[type |-> MessageTypeValues.PlaySound, clipId |-> a] : a \in U16s}

Blinks ==
  {[type |-> MessageTypeValues.Blink, flashCount |-> a, color |-> b] : a \in U8s, b \in U32s}

BatteryLevels ==
  {[type |-> MessageTypeValues.BatteryLevel, level |-> a, voltage |-> b, charging |-> c] :
     a \in U32s, b \in U32s, c \in BOOLEAN}

Rssis == {[type |-> MessageTypeValues.Rssi, rssi |-> a] : a \in U16s}

Messages == IAmADies \cup RollStates \cup PlaySounds \cup Blinks \cup BatteryLevels \cup Rssis

\* msg.flashCount, msg.color: a property the object does not have is undefined,
\* which setUint8 and setUint32 write as 0
Property(msg, name) == IF name \in DOMAIN msg THEN msg[name] ELSE 0

\* dataView.setUint32(index, v, true): little endian
U32Bytes(v) ==
  <<v % 256, (v \div 256) % 256, (v \div 65536) % 256, (v \div 16777216) % 256>>

\* serializeMessage(msgOrType)
serializeMessage(msgOrType) ==
  IF "number" \in DOMAIN msgOrType
    THEN <<msgOrType.number % 256>>
    ELSE <<msgOrType.type % 256, Property(msgOrType, "flashCount") % 256>>
           \o U32Bytes(Property(msgOrType, "color"))

\* what a call of deserializeMessage does: it returns a value or throws
Returns(v) == [throws |-> "none", value |-> v]

Throws(e) == [throws |-> e, value |-> [number |-> 0]]

\* dataView.getUint8(index), getUint16(index, true), getUint32(index, true) and
\* getFloat32(index, true) (its 32 bits): they throw a RangeError past the end
InRange(buffer, index, size) == index + size <= Len(buffer)

U8(buffer, index) == buffer[index + 1]

U16(buffer, index) == buffer[index + 1] + 256 * buffer[index + 2]

U32(buffer, index) ==
  buffer[index + 1] + 256 * buffer[index + 2] + 65536 * buffer[index + 3]
    + 16777216 * buffer[index + 4]

\* readString(): the rest of the buffer up to its first null character
readString(buffer, index) ==
  LET str == SubSeq(buffer, index + 1, Len(buffer))
      nulls == {i \in 1..Len(str) : str[i] = 0}
      c == IF nulls = {} THEN Len(str) ELSE (CHOOSE i \in nulls : \A j \in nulls : i <= j) - 1
  IN  SubSeq(str, 1, c)

EmptyAsType == Returns([number |-> 0])

\* if (!buffer?.byteLength) throw new Error("Empty buffer")
EmptyBuffer == Throws("Error: Empty buffer")

BareTypeAlone(buffer, msgType) ==
  IF Len(buffer) = 1 THEN Returns([number |-> msgType]) ELSE Throws("Error")

\* default: return msgType
BareType(buffer, msgType) == Returns([number |-> msgType])

\* deserializeMessage(buffer)
deserializeMessage(buffer) ==
  IF Len(buffer) = 0
    THEN EmptyBuffer
    ELSE LET msgType == U8(buffer, 0)
         IN CASE msgType = MessageTypeValues.IAmADie ->
                   IF InRange(buffer, 12, 2)
                     THEN Returns([type |-> msgType, diceType |-> U8(buffer, 1),
                                   designAndColor |-> U8(buffer, 2),
                                   dataSetHash |-> U32(buffer, 4), pixelId |-> U32(buffer, 8),
                                   flashSize |-> U16(buffer, 12),
                                   version |-> readString(buffer, 14)])
                     ELSE Throws("RangeError")
              [] msgType = MessageTypeValues.RollState ->
                   IF InRange(buffer, 2, 1)
                     THEN Returns([type |-> msgType, state |-> U8(buffer, 1),
                                   face |-> U8(buffer, 2) + 1])
                     ELSE Throws("RangeError")
              [] msgType = MessageTypeValues.PlaySound ->
                   IF InRange(buffer, 1, 2)
                     THEN Returns([type |-> msgType, clipId |-> U16(buffer, 1)])
                     ELSE Throws("RangeError")
              [] msgType = MessageTypeValues.BatteryLevel ->
                   IF InRange(buffer, 9, 1)
                     THEN Returns([type |-> msgType, level |-> U32(buffer, 1),
                                   voltage |-> U32(buffer, 5), charging |-> U8(buffer, 9) # 0])
                     ELSE Throws("RangeError")
              [] msgType = MessageTypeValues.Rssi ->
                   IF InRange(buffer, 1, 2)
                     THEN Returns([type |-> msgType, rssi |-> U16(buffer, 1)])
                     ELSE Throws("RangeError")
              [] OTHER -> BareType(buffer, msgType)

NoCodec ==
  [pc |-> "idle", msg |-> [number |-> 0], buffer |-> <<>>, out |-> Returns([number |-> 0])]

\* serializeMessage(msg) is called
Serialize(msg) ==
  /\ codec.pc = "idle"
  /\ codec' = [NoCodec EXCEPT !.pc = "serialized", !.msg = msg,
                              !.buffer = serializeMessage(msg)]
  /\ UNCHANGED notCodec

\* deserializeMessage is called with the buffer serializeMessage returned
Deserialize ==
  /\ codec.pc = "serialized"
  /\ codec' = [codec EXCEPT !.pc = "deserialized", !.out = deserializeMessage(codec.buffer)]
  /\ UNCHANGED notCodec

\* the bytes that follow the message type in a buffer received: up to MaxTail
\* bytes, or the 15 bytes of a complete message
TailBytes == {0, 1, 255}

FullTail == <<1, 2, 0, 4, 3, 2, 1, 8, 7, 6, 5, 10, 9, 49, 0>>

Tails == UNION {[1..n -> TailBytes] : n \in 0..MaxTail} \cup {FullTail}

\* the buffers deserializeMessage may be given: none, or a first byte of any
\* value and what follows it
Buffers == {<<>>} \cup {<<b>> \o tail : b \in 0..255, tail \in Tails}

\* deserializeMessage(buffer) is called with a buffer received
Receive(buffer) ==
  /\ codec.pc = "idle"
  /\ codec' = [NoCodec EXCEPT !.pc = "received", !.buffer = buffer,
                              !.out = deserializeMessage(buffer)]
  /\ UNCHANGED notCodec

CodecNext ==
  \/ \E msg \in Messages : Serialize(msg)
  \/ Deserialize
  \/ \E buffer \in Buffers : Receive(buffer)

Init ==
  /\ _connected = FALSE /\ _reconnect = FALSE
  /\ _session = FALSE /\ _info = 0
  /\ gattConnected = FALSE /\ notifying = FALSE
  /\ doomed = [t \in Tasks |-> FALSE]
  /\ mutex = <<>>
  /\ pc = [t \in Tasks |-> "idle"]
  /\ autoReconnect = [t \in Tasks |-> FALSE]
  /\ retries = [t \in Tasks |-> 0]
  /\ delay = [t \in Tasks |-> 0]
  /\ localInfo = [t \in Tasks |-> 0]
  /\ timer = {}
  /\ wait = [t \in Tasks |-> "none"]
  /\ wval = [t \in Tasks |-> 0]
  /\ write = [t \in Tasks |-> "none"]
  /\ listeners = {}
  /\ orphans = {}
  /\ emitted = <<>>
  /\ ended = NoneEnded
  /\ sessions = 0
  /\ since = NoSince
  /\ lost = [t \in Tasks |-> FALSE]
  /\ dropped = [t \in Tasks |-> FALSE]
  /\ attempts = [t \in Tasks |-> 0]
  /\ got = [t \in Tasks |-> 0]
  /\ order = [t \in Tasks |-> "none"]
  /\ expired = [t \in Tasks |-> FALSE]
  /\ client = [c \in Clients |-> "idle"]
  /\ dispatched = NoDispatch
  /\ lockOrder = <<>>
  /\ grantOrder = <<>>
  /\ backOff = NoBackOff
  /\ bulk = NoBulk
  /\ codec = NoCodec

Next ==
  \/ LinkLoss
  \/ Disconnect
  \/ \E t \in Tasks, ar \in BOOLEAN : Connect(t, ar)
  \/ \E t \in Tasks : ScheduledReconnect(t)
  \/ \E t \in Tasks : RetryAttempt(t)
  \/ \E t \in Tasks : GattConnectOk(t)
  \/ \E t \in Tasks : GattConnectFail(t)
  \/ \E t \in Tasks : GrantLock(t)
  \/ \E t \in Tasks : DiscoveryOk(t)
  \/ \E t \in Tasks : GetWriteOk(t)
  \/ \E t \in Tasks : GattFail(t)
  \/ \E t \in Tasks : SubscribeOk(t)
  \/ \E t \in Tasks : IdentifySettle(t)
  \/ \E t \in Tasks : AfterDispatch(t)
  \/ \E t \in Tasks : WriteOk(t)
  \/ \E t \in Tasks : WriteFail(t)
  \/ \E ty \in MsgTypes, v \in Payloads : MsgArrive(ty, v)
  \/ \E t \in Tasks : Timeout(t)
  \/ \E t \in Tasks : LateTimeout(t)
  \/ \E ty \in MsgTypes : OrphanTimeout(ty)
  \/ \E t \in Tasks : Request(t)
  \/ \E t \in Tasks : RequestSettle(t)
  \/ \E t \in Tasks : Send(t)
  \/ \E t \in Tasks : SendSettle(t)

Spec == Init /\ [][Next]_vars

\* a transport call, a timer or a continuation of task t completes
TaskStep(t) ==
  \/ ScheduledReconnect(t)
  \/ RetryAttempt(t)
  \/ GattConnectOk(t)
  \/ GattConnectFail(t)
  \/ GrantLock(t)
  \/ DiscoveryOk(t)
  \/ GetWriteOk(t)
  \/ GattFail(t)
  \/ SubscribeOk(t)
  \/ IdentifySettle(t)
  \/ AfterDispatch(t)
  \/ WriteOk(t)
  \/ WriteFail(t)
  \/ Timeout(t)
  \/ LateTimeout(t)
  \/ RequestSettle(t)
  \/ SendSettle(t)

\* the application does not keep the microtask queue busy for ever by making
\* calls from its continuations: the event loop gets to run its macrotasks
EventLoopRuns == []<>~Runnable

\* every transport call and timer completes, and every continuation runs
FairSpec == Spec /\ (\A t \in Tasks : SF_vars(TaskStep(t))) /\ EventLoopRuns

\* The Pixel with an application that connects without automatic reconnection:
\* no reconnect is scheduled and no attempt is retried.
CallNext ==
  \/ LinkLoss
  \/ Disconnect
  \/ \E t \in Tasks : Connect(t, FALSE)
  \/ \E t \in Tasks : GattConnectOk(t)
  \/ \E t \in Tasks : GattConnectFail(t)
  \/ \E t \in Tasks : GrantLock(t)
  \/ \E t \in Tasks : DiscoveryOk(t)
  \/ \E t \in Tasks : GetWriteOk(t)
  \/ \E t \in Tasks : GattFail(t)
  \/ \E t \in Tasks : SubscribeOk(t)
  \/ \E t \in Tasks : IdentifySettle(t)
  \/ \E t \in Tasks : AfterDispatch(t)
  \/ \E t \in Tasks : WriteOk(t)
  \/ \E t \in Tasks : WriteFail(t)
  \/ \E ty \in MsgTypes, v \in Payloads : MsgArrive(ty, v)
  \/ \E t \in Tasks : Timeout(t)
  \/ \E t \in Tasks : LateTimeout(t)
  \/ \E ty \in MsgTypes : OrphanTimeout(ty)
  \/ \E t \in Tasks : Request(t)
  \/ \E t \in Tasks : RequestSettle(t)
  \/ \E t \in Tasks : Send(t)
  \/ \E t \in Tasks : SendSettle(t)

\* every transport call and timer completes, and every continuation runs (the
\* two reconnect steps of TaskStep are never enabled here)
CallFairSpec ==
  /\ Init /\ [][CallNext]_vars
  /\ \A t \in Tasks : SF_vars(TaskStep(t))
  /\ EventLoopRuns

\* The Pixel with an application that connects and disconnects and makes no
\* other call.
ConnectNext ==
  \/ LinkLoss
  \/ Disconnect
  \/ \E t \in Tasks, ar \in BOOLEAN : Connect(t, ar)
  \/ \E t \in Tasks : ScheduledReconnect(t)
  \/ \E t \in Tasks : RetryAttempt(t)
  \/ \E t \in Tasks : GattConnectOk(t)
  \/ \E t \in Tasks : GattConnectFail(t)
  \/ \E t \in Tasks : GrantLock(t)
  \/ \E t \in Tasks : DiscoveryOk(t)
  \/ \E t \in Tasks : GetWriteOk(t)
  \/ \E t \in Tasks : GattFail(t)
  \/ \E t \in Tasks : SubscribeOk(t)
  \/ \E t \in Tasks : IdentifySettle(t)
  \/ \E t \in Tasks : AfterDispatch(t)
  \/ \E t \in Tasks : WriteOk(t)
  \/ \E t \in Tasks : WriteFail(t)
  \/ \E ty \in MsgTypes, v \in Payloads : MsgArrive(ty, v)
  \/ \E t \in Tasks : Timeout(t)
  \/ \E ty \in MsgTypes : OrphanTimeout(ty)

\* every transport call and timer completes, and every continuation runs (the
\* steps of TaskStep that belong to other calls are never enabled here)
ConnectFairSpec ==
  /\ Init /\ [][ConnectNext]_vars
  /\ \A t \in Tasks : SF_vars(TaskStep(t))
  /\ EventLoopRuns

CodecSpec == Init /\ [][CodecNext]_vars

BackOffSpec == Init /\ [][BackOffNext]_vars

BulkSpec == Init /\ [][BulkNext]_vars

MutexSpec == Init /\ [][MutexNext]_vars

\* The event loop runs every continuation that is ready, and every dispatched
\* function comes to an end.
MutexFairSpec ==
  /\ MutexSpec
  /\ \A c \in Clients : WF_vars(FnStart(c))
  /\ \A c \in Clients : WF_vars(FnReturn(c) \/ FnThrow(c))

TypeOK ==
  /\ _connected \in BOOLEAN /\ _reconnect \in BOOLEAN
  /\ _session \in BOOLEAN /\ _info \in 0..MaxInfo
  /\ gattConnected \in BOOLEAN /\ notifying \in BOOLEAN
  /\ \A t \in Tasks : retries[t] \in 0..AutoRetries
  /\ \A t \in Tasks : wait[t] \in {"none", "pending", "resolved", "timedout"}
  /\ \A t \in Tasks : write[t] \in {"none", "pending", "ok", "fail"}
  /\ listeners \subseteq Tasks /\ orphans \subseteq MsgTypes
  /\ Len(mutex) <= NTasks + NClients
  /\ \A k \in 1..Len(emitted) :
       /\ emitted[k].ev \in ConnectionEventValues
       /\ emitted[k].reason \in ConnectionEventReasonValues

\* ------------------------------------------------------------------------
\* Properties
\* ------------------------------------------------------------------------
Rejections ==
  {"requestRejected", "sendRejected", "attemptFailed", "connectRejected", "reconnectFailed"}

Disconnections == {emitted[k] : k \in {j \in 1..Len(emitted) : emitted[j].ev = "disconnected"}}

Readies == {emitted[k] : k \in {j \in 1..Len(emitted) : emitted[j].ev = "ready"}}

Running == {c \in Clients : client[c] \in {"run", "resumed"}}

\* C1: whatever the number of concurrent connect sequences, at most one Session
\* is constructed between two gattserverdisconnected events.
C1_OneSessionPerGeneration == sessions <= 1

\* Two connect sequences are in progress: one has constructed the Session and
\* holds the mutex, the other waits for it.
C1_Witness ==
  /\ sessions = 1
  /\ \E t, u \in Tasks : pc[t] \in {"subscribe", "identify"} /\ pc[u] = "lock"

\* C2: at any moment at most one function passed to dispatch is between its
\* start and its end, also when it is suspended at an await.
C2_NoInterleave == Cardinality(Running) <= 1

\* A dispatched function is suspended at an await while another dispatch call
\* waits for the lock.
C2_Witness == \E c, d \in Clients : client[c] = "resumed" /\ client[d] = "lock"

\* C3: the lock is granted in the order of the lock() calls.
C3_Fifo ==
  /\ Len(grantOrder) <= Len(lockOrder)
  /\ \A i \in 1..Len(grantOrder) : grantOrder[i] = lockOrder[i]

\* Two callers are queued behind the holder, after an earlier grant.
C3_Witness ==
  /\ Len(mutex) = 3
  /\ mutex[1].held
  /\ Len(grantOrder) >= 2

\* C4: when the dispatched function ends, by returning or by throwing, its lock is
\* released; a throw rejects the dispatch call; every queued dispatch call gets to
\* run its function.
C4_AlwaysReleases ==
  /\ [](\A c \in Clients : client[c] = "idle" =>
          \A i \in 1..Len(mutex) : mutex[i].task # c)
  /\ [](dispatched.threw => dispatched.outcome = "rejected")
  /\ \A c \in Clients : (client[c] = "lock") ~> (client[c] = "run")

\* A dispatched function threw while another dispatch call was queued behind it.
C4_Witness ==
  /\ dispatched.threw
  /\ \E c \in Clients : client[c] = "lock"

\* C5: a sendAndWaitForResponse call that resolves returns the first message of
\* the expected type delivered since the call started, whether it came before or
\* after the end of the write; a call that times out was delivered none.
C5_ReplyNotMissed ==
  /\ ended.what \in {"requestResolved", "identified"} =>
       ended.got # 0 /\ ended.value = ended.got
  /\ ended.err = "Timeout" => ended.got = 0

\* A call resolves with a reply that was delivered before its write completed.
C5_Witness == ended.what = "requestResolved" /\ ended.order = "replyFirst"

\* C6: when the timer of a wait expires its listener is removed and its promise
\* stays rejected: the call fails with the timeout error and returns no message.
C6_TimeoutUnregisters ==
  /\ \A t \in Tasks : wait[t] = "timedout" => t \notin listeners /\ wval[t] = 0
  /\ ended.err = "Timeout" =>
       ended.what \in Rejections /\ ended.value = 0 /\ ended.got = 0

\* A sendAndWaitForResponse call of the application failed with the timeout error.
C6_Witness == ended.what = "requestRejected" /\ ended.err = "Timeout"

\* C7: without a Session, sendMessage and sendAndWaitForResponse throw the
\* NetworkError "not ready" and change nothing: no write, no listener, no timer.
C7_NotReadyNoEffect ==
  [][\A t \in Tasks :
       (~_session /\ (Request(t) \/ Send(t))) =>
         /\ ended'.task = t
         /\ ended'.what \in {"requestRejected", "sendRejected"}
         /\ ended'.err = "NotReady"
         /\ ErrorName(ended'.err) = "NetworkError"
         /\ UNCHANGED <<pixelVars, gattVars, mutex, taskVars, waitVars>>]_vars

\* sendAndWaitForResponse was called with no Session and threw "not ready".
C7_Witness == ~_session /\ ended.what = "requestRejected" /\ ended.err = "NotReady"

\* C8: the reply of an identification during which the link was lost is not
\* stored and its attempt notifies no Ready; when a reply is stored the Pixel is
\* connected and has its Session.
C8_LostIdentifyDiscarded ==
  /\ ended.what = "identified" => ~ended.lost /\ Connected /\ _session
  /\ \A e \in Readies : ended.task = e.by /\ ~ended.lost

\* The link was lost during the identification, whose reply had come: the
\* attempt failed on the check made after the identification.
C8_Witness ==
  /\ ended.what \in {"attemptFailed", "connectRejected", "reconnectFailed"}
  /\ ended.lost
  /\ ended.err = "DisconnectedWhileIdentifying"

\* C9: the reason of a Disconnected event is Success when _connected was false as
\* the handler was entered, else LinkLoss when _reconnect was set, else Timeout.
C9_ReasonPrecedence ==
  \A e \in Disconnections :
    e.reason = IF ~e.pre.connected THEN "success"
               ELSE IF e.pre.reconnect THEN "linkLoss" ELSE "timeout"

\* A Disconnected event with reason LinkLoss was notified.
C9_Witness == \E e \in Disconnections : e.reason = "linkLoss"

\* C10: a Disconnected event is notified with _connected false, no Session and
\* no info, whatever they were before.
C10_ClearedBeforeDisconnected ==
  \A e \in Disconnections :
    /\ ~e.connected /\ ~e.session /\ e.info = 0
    /\ ~_connected /\ ~_session /\ _info = 0

\* A Disconnected event was notified by a Pixel that was ready.
C10_Witness ==
  \E e \in Disconnections : e.pre.connected /\ e.pre.session /\ e.pre.info # 0

\* C11: a gattserverdisconnected event schedules a reconnect exactly when
\* _reconnect was set and _info was defined as the handler was entered, and a
\* failure of the scheduled reconnect is caught: it rejects no call of the
\* application.
C11_ReconnectScheduled ==
  /\ [][\A e \in Disconnections' :
         (\E t \in Tasks : pc[t] # "scheduled" /\ pc'[t] = "scheduled")
           <=> (e.pre.reconnect /\ e.pre.info # 0)]_vars
  /\ [](ended.timer => ended.what # "connectRejected")

\* The reconnect scheduled by the handler ran, failed and its error was caught.
C11_Witness == ended.timer /\ ended.what = "reconnectFailed"

\* C12 as claimed: when the reconnect scheduled after a link loss resolves, no
\* disconnection having occurred since its last attempt took the lock, the Pixel
\* has a new Session and the info of a new identification.
C12_ReconnectGetsReady ==
  (ended.timer /\ ended.what = "connectResolved" /\ ~ended.lost) =>
    (_session /\ _info # 0)

\* C13: disconnect() on an open link notifies Disconnecting, then closes the link
\* with _connected false, and the Disconnected event that follows has the reason
\* Success; disconnect() on a closed link notifies nothing and changes nothing.
C13_Disconnect ==
  [][Disconnect =>
       IF gattConnected
         THEN /\ Len(emitted') = 2
              /\ emitted'[1].ev = "disconnecting"
              /\ emitted'[1].connected = _connected
              /\ emitted'[2].ev = "disconnected"
              /\ emitted'[2].reason = "success"
              /\ ~emitted'[2].pre.connected
              /\ ~_connected' /\ ~gattConnected'
         ELSE /\ emitted' = <<>>
              /\ UNCHANGED <<pixelVars, gattVars, mutex, taskVars, waitVars>>]_vars

\* disconnect() was called on a connected Pixel.
C13_Witness ==
  /\ Len(emitted) = 2
  /\ emitted[1].ev = "disconnecting" /\ emitted[1].connected
  /\ emitted[2].ev = "disconnected"

FailedToConnects ==
  {emitted[k] : k \in {j \in 1..Len(emitted) : emitted[j].ev = "failedToConnect"}}

\* C14: a connect sequence is rejected only when an attempt fails with no retry
\* left; the step that rejects it, with the error of that attempt, notifies one
\* FailedToConnect event with the reason Timeout, and no other step notifies one.
C14_FailedToConnectOnce ==
  /\ ended.what \in {"connectRejected", "reconnectFailed"} =>
       /\ ended.retries = 0
       /\ ended.err # "none"
       /\ Len(emitted) = 1
       /\ emitted[1].ev = "failedToConnect"
       /\ emitted[1].reason = "timeout"
       /\ emitted[1].by = ended.task
  /\ ended.what = "attemptFailed" => ended.retries > 0 /\ emitted = <<>>
  /\ FailedToConnects # {} => ended.what \in {"connectRejected", "reconnectFailed"}

\* connect(true) was rejected: its last attempt failed with no retry left.
C14_Witness ==
  /\ ended.what = "connectRejected"
  /\ ended.auto
  /\ FailedToConnects # {}

\* C15: a sequence started with autoReconnect runs doConnect at most 5 times and
\* waits 2, 4, 8 and 16 seconds after its 1st, 2nd, 3rd and 4th failed attempt; a
\* sequence started without it runs doConnect once and never waits.
C15_AttemptsAndWaits ==
  \A t \in Tasks :
    /\ attempts[t] <= 5
    /\ ~autoReconnect[t] => attempts[t] <= 1 /\ pc[t] # "backoff"
    /\ pc[t] \notin {"idle", "scheduled", "request", "send"} => attempts[t] >= 1
    /\ pc[t] = "backoff" =>
         delay[t] = CASE attempts[t] = 1 -> 2
                      [] attempts[t] = 2 -> 4
                      [] attempts[t] = 3 -> 8
                      [] attempts[t] = 4 -> 16
                      [] OTHER -> 0

\* A sequence with autoReconnect makes its fifth attempt, having waited 16
\* seconds, while a sequence without it makes its only one.
C15_Witness ==
  \E t, u \in Tasks :
    /\ autoReconnect[t] /\ attempts[t] = 5 /\ delay[t] = 32
    /\ pc[u] = "connectGatt" /\ ~autoReconnect[u] /\ attempts[u] = 1

RECURSIVE Pow2(_)
Pow2(n) == IF n = 0 THEN 1 ELSE 2 * Pow2(n - 1)

\* C16: a call with retries R whose attempts all fail makes R + 1 attempts, then
\* calls fail once with the error of the last attempt and success never; no call
\* makes more than R + 1 attempts.
C16_AllAttemptsFail ==
  /\ backOff.calls <= backOff.R + 1
  /\ Len(backOff.failArgs) <= 1
  /\ (backOff.pc = "done" /\ backOff.resolved = 0) =>
       /\ backOff.calls = backOff.R + 1
       /\ Len(backOff.errs) = backOff.calls
       /\ backOff.failArgs = <<backOff.errs[backOff.calls]>>
       /\ backOff.successArgs = <<>>
  /\ backOff.failArgs # <<>> => backOff.pc = "done"

\* Every attempt of a call with at least two retries has failed.
C16_Witness == backOff.R >= 2 /\ backOff.resolved = 0 /\ Len(backOff.failArgs) = 1

\* C17: when an attempt succeeds success is called once, with the result of that
\* attempt, and the call ends: no attempt follows and fail is not called.
C17_SuccessOnce ==
  /\ Len(backOff.successArgs) <= 1
  /\ backOff.resolved <= 1
  /\ backOff.resolved = 1 =>
       /\ backOff.pc = "done"
       /\ backOff.successArgs = <<backOff.result>>
       /\ backOff.failArgs = <<>>

\* C18: the k-th wait of a call with delay d lasts d * 2^(k-1) seconds, there
\* is one wait before each attempt but the first, and none with retries 0.
C18_Waits ==
  /\ backOff.pc \in {"try", "done"} => Len(backOff.waits) = backOff.calls - 1
  /\ backOff.pc = "wait" => Len(backOff.waits) = backOff.calls - 1 /\ backOff.R # 0
  /\ \A k \in 1..Len(backOff.waits) : backOff.waits[k] = backOff.d * Pow2(k - 1)
  /\ backOff.R = 0 => backOff.calls <= 1 /\ backOff.waits = <<>>

\* A call has waited three times.
C18_Witness == Len(backOff.waits) = 3

Ceil(n, m) == (n + m - 1) \div m

RECURSIVE SizeSum(_, _)
\* the sizes of the BulkData messages among the first k messages sent
SizeSum(sent, k) == IF k <= 1 THEN 0 ELSE sent[k].size + SizeSum(sent, k - 1)

\* C19: the first message of an upload of N bytes is a BulkSetup of size N, the
\* others are BulkData of 1 to 100 bytes each at the offset that is the sum of
\* the sizes before it; there are never more than ceil(N / 100) of them, and
\* when the upload returns there are exactly that many and their sizes sum to N.
C19_Chunks ==
  /\ (bulk.pc \in {"setup", "data", "done"} \/ bulk.sent # <<>>) =>
       /\ Len(bulk.sent) >= 1
       /\ bulk.sent[1] = [type |-> "BulkSetup", size |-> bulk.N, offset |-> 0]
  /\ \A k \in 2..Len(bulk.sent) :
       /\ bulk.sent[k].type = "BulkData"
       /\ bulk.sent[k].size \in 1..MaxMessageSize
       /\ bulk.sent[k].offset = SizeSum(bulk.sent, k - 1)
  /\ Len(bulk.sent) <= 1 + Ceil(bulk.N, MaxMessageSize)
  /\ SizeSum(bulk.sent, Len(bulk.sent)) <= bulk.N
  /\ bulk.pc = "done" =>
       /\ Len(bulk.sent) = 1 + Ceil(bulk.N, MaxMessageSize)
       /\ SizeSum(bulk.sent, Len(bulk.sent)) = bulk.N

\* An upload of 250 bytes has returned after chunks of 100, 100 and 50 bytes at
\* offsets 0, 100 and 200.
C19_Witness ==
  /\ bulk.pc = "done"
  /\ bulk.N = 250
  /\ bulk.sent = <<[type |-> "BulkSetup", size |-> 250, offset |-> 0],
                   [type |-> "BulkData", size |-> 100, offset |-> 0],
                   [type |-> "BulkData", size |-> 100, offset |-> 100],
                   [type |-> "BulkData", size |-> 50, offset |-> 200]>>

\* C20: every bulk message but the last one sent has been acknowledged: a
\* BulkData is sent only after the BulkSetupAck was received, and the next one
\* only after the BulkDataAck of the one before.
C20_Sequential ==
  /\ Len(bulk.sent) - bulk.acks \in {0, 1}
  /\ Len(bulk.radio) <= 1
  /\ (bulk.pc = "data" /\ bulk.waiting # "none") => bulk.acks = Len(bulk.sent) - 1
  /\ bulk.pc = "done" => bulk.acks = Len(bulk.sent)

\* The third chunk is waiting for its acknowledgement, the setup and two chunks
\* are acknowledged.
C20_Witness ==
  bulk.pc = "data" /\ Len(bulk.sent) = 4 /\ bulk.acks = 3 /\ bulk.waiting = "BulkDataAck"

\* C21: the progress callback of an upload of N > 0 bytes is called with 0
\* before the BulkSetup and then once after each acknowledged chunk with the
\* bytes acknowledged so far over N (progress holds the numerators): the values
\* never decrease, stay between 0 and N over N, and the last one of an upload
\* that returns is N over N.
C21_Progress ==
  bulk.N > 0 =>
    /\ bulk.pc # "idle" => Len(bulk.progress) >= 1 /\ bulk.progress[1] = 0
    /\ bulk.pc = "setup" => bulk.progress = <<0>>
    /\ bulk.pc = "data" => Len(bulk.progress) = Len(bulk.sent) - 1
    /\ bulk.pc = "done" => Len(bulk.progress) = Len(bulk.sent)
    /\ Len(bulk.progress) <= Len(bulk.sent) + 1
    /\ \A k \in 2..Len(bulk.progress) :
         /\ k <= Len(bulk.sent)
         /\ bulk.progress[k] = SizeSum(bulk.sent, k)
         /\ bulk.progress[k] >= bulk.progress[k - 1]
         /\ bulk.progress[k] \in 0..bulk.N
    /\ bulk.pc = "done" => bulk.progress[Len(bulk.progress)] = bulk.N

\* An upload of 250 bytes has returned after reporting 0, 100, 200 and 250
\* over 250.
C21_Witness == bulk.pc = "done" /\ bulk.N = 250 /\ bulk.progress = <<0, 100, 200, 250>>

\* C22: uploadBulkDataWithAck listens for the finished notification from before
\* its first bulk message until the notification or the end of the call, so a
\* notification delivered during the call is always heard, and once it is
\* heard the call neither waits for it nor fails for lack of it.
C22_FinishedNotLost ==
  /\ (bulk.uploads > 0 /\ bulk.pc \in {"setup", "data", "done", "finishing"}
        /\ ~bulk.programmingFinished) => bulk.listening
  /\ bulk.finished > 0 => bulk.programmingFinished
  /\ bulk.programmingFinished =>
       bulk.pc # "finishing" /\ bulk.message # "confirm programming"
  /\ (bulk.uploads > 0 /\ bulk.pc = "returned") => bulk.programmingFinished

\* A call has returned whose finished notification came before the BulkSetup
\* was acknowledged.
C22_Witness ==
  bulk.op = "uploadBulkDataWithAck" /\ bulk.pc = "returned" /\ bulk.heardAt = "setup"

\* C23: in playTestAnimation and transferInstantAnimations, after an UpToDate
\* acknowledgement no bulk message is sent and the call returns; after Download
\* one upload is run; after any other ackType the call fails with NetworkError
\* and no bulk message is sent. (A failed write of the negotiation message
\* fails the call whatever the acknowledgement.)
C23_AckTypes ==
  bulk.op \in InstantOps =>
    /\ bulk.uploads <= 1
    /\ ~bulk.replied => bulk.uploads = 0 /\ bulk.sent = <<>>
    /\ (bulk.replied /\ bulk.ackType = "UpToDate") =>
         /\ bulk.uploads = 0 /\ bulk.sent = <<>>
         /\ bulk.pc \in {"negotiate", "returned", "failed"}
         /\ bulk.pc = "failed" => bulk.message = "write failed"
    /\ (bulk.replied /\ bulk.ackType = "Download") =>
         /\ (bulk.pc # "negotiate" /\ bulk.message # "write failed") => bulk.uploads = 1
         /\ \A k \in 2..Len(bulk.sent) : bulk.sent[k].type = "BulkData"
         /\ bulk.pc = "returned" => Len(bulk.sent) = 1 + Ceil(bulk.dataLen, MaxMessageSize)
    /\ (bulk.replied /\ bulk.ackType \notin {"UpToDate", "Download"}) =>
         /\ bulk.uploads = 0 /\ bulk.sent = <<>>
         /\ bulk.pc \in {"negotiate", "failed"}
         /\ bulk.pc = "failed" => bulk.err = "NetworkError"

\* transferInstantAnimations has returned after an UpToDate acknowledgement.
C23_Witness ==
  /\ bulk.op = "transferInstantAnimations"
  /\ bulk.ackType = "UpToDate"
  /\ bulk.pc = "returned"

\* C24: in transferDataSet, after an acknowledgement whose result is false the
\* call fails with the NetworkError of insufficient memory and no bulk message
\* is sent; after one whose result is true one upload is run. (A failed write
\* of the negotiation message fails the call whatever the acknowledgement.)
C24_Capacity ==
  bulk.op = "transferDataSet" =>
    /\ bulk.uploads <= 1
    /\ ~bulk.replied => bulk.uploads = 0 /\ bulk.sent = <<>>
    /\ (bulk.replied /\ ~bulk.result) =>
         /\ bulk.uploads = 0 /\ bulk.sent = <<>>
         /\ bulk.pc \in {"negotiate", "failed"}
         /\ bulk.pc = "failed" =>
              /\ bulk.err = "NetworkError"
              /\ bulk.message \in {"not enough memory", "write failed"}
    /\ (bulk.replied /\ bulk.result) =>
         /\ (bulk.pc # "negotiate" /\ bulk.message # "write failed") => bulk.uploads = 1
         /\ \A k \in 2..Len(bulk.sent) : bulk.sent[k].type = "BulkData"
         /\ bulk.pc = "returned" => Len(bulk.sent) = 1 + Ceil(bulk.dataLen, MaxMessageSize)

\* transferDataSet has failed for lack of memory.
C24_Witness ==
  /\ bulk.op = "transferDataSet"
  /\ bulk.replied /\ ~bulk.result
  /\ bulk.pc = "failed" /\ bulk.message = "not enough memory"

\* C25: a timeout or a failed write ends the transfer with its error and sends
\* nothing; a transfer that has failed sends nothing more; and no bulk message
\* is ever sent twice.
C25_NoRetry ==
  /\ [][(BulkTimeout \/ BulkWriteFail) =>
          /\ bulk'.pc = "failed"
          /\ bulk'.err # "none"
          /\ bulk'.sent = bulk.sent]_vars
  /\ [][bulk.pc = "failed" => (bulk'.pc = "failed" /\ bulk'.sent = bulk.sent)]_vars
  /\ [](\A j, k \in 1..Len(bulk.sent) : j < k => bulk.sent[j] # bulk.sent[k])
  /\ [](bulk.pc = "failed" => bulk.err # "none")

\* An upload of 250 bytes has failed on the timeout of its second chunk.
C25_Witness ==
  /\ bulk.pc = "failed" /\ bulk.message = "Timeout"
  /\ bulk.N = 250 /\ Len(bulk.sent) = 3

\* C26: the step that emits a Disconnected event leaves every pending wait of
\* waitForMsg pending and its listener registered; a pending wait fails only in
\* the step of its own timer, which removes its listener.
C26_WaitSurvivesLinkLoss ==
  /\ [][Disconnections' # {} =>
          (wait' = wait /\ listeners' = listeners /\ orphans' = orphans)]_vars
  /\ [][\A t \in Tasks :
          (wait[t] = "pending" /\ wait'[t] = "timedout") =>
            (Disconnections' = {} /\ t \notin listeners')]_vars

\* A Disconnected event was emitted while a request whose write had completed
\* was waiting for its reply: the wait is still pending.
C26_Witness ==
  /\ Disconnections # {}
  /\ \E t \in Tasks : pc[t] = "request" /\ write[t] = "ok" /\ wait[t] = "pending"
                        /\ t \in listeners

Emits(evs) == \E k \in 1..Len(emitted) : emitted[k].ev \in evs

\* C27: when every transport call and timer completes, a Connecting event is
\* followed by a Connected or a FailedToConnect event.
C27_ConnectingEnds == Emits({"connecting"}) ~> Emits({"connected", "failedToConnect"})

\* A retry of a sequence with auto-reconnect has emitted Connecting.
C27_Witness ==
  /\ Emits({"connecting"})
  /\ \E t \in Tasks : pc[t] = "connectGatt" /\ autoReconnect[t] /\ attempts[t] >= 2

\* C28: a step that emits Ready comes after a Connected event and after an
\* IAmADie message was given to a waiting listener, both since the last
\* Disconnected event (or since the creation of the Pixel), and the info of the
\* event is defined.
C28_ReadyAfterConnected ==
  \A e \in Readies : since.connected /\ since.iAmADie /\ e.info # 0 /\ e.connected

\* Ready is emitted again, by a reconnect set off by the disconnected handler.
C28_Witness == Readies # {} /\ ended.timer /\ ended.what = "connectResolved"

\* C29: whenever the connected property is false, info is undefined and
\* pixelId is 0, in the states between steps and at each connection event.
C29_NotConnectedNoInfo ==
  /\ ~Connected => (_info = 0 /\ pixelId = 0)
  /\ \A k \in 1..Len(emitted) : ~emitted[k].connected => emitted[k].info = 0

\* A Pixel that was ready has just emitted Disconnected.
C29_Witness == ~Connected /\ \E e \in Disconnections : e.pre.info # 0

\* C30: deserializeMessage gives back every message serializeMessage was given:
\* a message of the same type with the same values of all its properties.
C30_RoundTrip ==
  codec.pc = "deserialized" => (codec.out.throws = "none" /\ codec.out.value = codec.msg)

\* the message types deserializeMessage builds an object for
Structured ==
  {MessageTypeValues.IAmADie, MessageTypeValues.RollState, MessageTypeValues.PlaySound,
   MessageTypeValues.BatteryLevel, MessageTypeValues.Rssi}

\* C31: deserializeMessage of a buffer of length zero throws the empty buffer
\* error; it returns neither a message nor a message type.
C31_EmptyBufferThrows ==
  (codec.pc = "received" /\ Len(codec.buffer) = 0)
    => codec.out = Throws("Error: Empty buffer")

\* deserializeMessage was called with an empty buffer.
C31_Witness == codec.pc = "received" /\ codec.buffer = <<>> /\ codec.out.throws # "none"

\* C32: deserializeMessage of a buffer whose first byte is not the type of
\* IAmADie, RollState, PlaySound, BatteryLevel or Rssi returns that byte as a
\* bare message type and does not throw, whatever bytes follow it.
C32_UnknownTypeIsBare ==
  (codec.pc = "received" /\ Len(codec.buffer) > 0 /\ codec.buffer[1] \notin Structured)
    => codec.out = Returns([number |-> codec.buffer[1]])

\* A buffer of several bytes whose first byte has no class (here the type of
\* Blink, and a value that is not in MessageTypeValues) was deserialized.
C32_Witness ==
  /\ codec.pc = "received"
  /\ Len(codec.buffer) > 1
  /\ codec.buffer[1] \in {MessageTypeValues.Blink, 200}
  /\ codec.out.throws = "none"
  /\ codec.out.value = [number |-> codec.buffer[1]]

\* the call of sendAndWaitForResponse of task t ended in the last step
Settles(t) == ended.task = t /\ ended.what \in {"requestResolved", "requestRejected"}

\* C33 as stated: every sendAndWaitForResponse call settles when its write
\* settles; it resolves only with a message that arrived while it waited, and
\* it never rejects after the expiry of its timer.
C33_RejectsByTimerExpiry ==
  /\ \A t \in Tasks : (pc[t] = "request") ~> Settles(t)
  /\ [](ended.what = "requestResolved" => (ended.got # 0 /\ ended.value # 0))
  /\ [](ended.what = "requestRejected" => ~ended.expired)

\* C33: every sendAndWaitForResponse call settles when its write settles. It
\* resolves only with a message that arrived while it waited. It rejects at
\* the failure of its write or at the expiry of its timer; a rejection after
\* the expiry of the timer comes from the failure of the write, in a call
\* whose message had arrived before the expiry.
C33_Settles ==
  /\ \A t \in Tasks : (pc[t] = "request") ~> Settles(t)
  /\ [](ended.what = "requestResolved" => (ended.got # 0 /\ ended.value # 0))
  /\ []((ended.what = "requestRejected" /\ ended.expired)
          => (ended.err = "Transport" /\ ended.got # 0))

\* A call whose message arrived is rejected by its write after the expiry of
\* its timer.
C33_Witness ==
  ended.what = "requestRejected" /\ ended.expired /\ ended.err = "Transport" /\ ended.got # 0

\* the reconnect sequences started by the handler's timer that are running
Reconnecting == {t \in timer : pc[t] \notin {"idle", "scheduled"}}

\* C34: at most one automatically scheduled reconnect sequence is in progress
\* at any time, and a link loss during such a sequence (its back-off waits
\* included) schedules no other reconnect.
C34_OneScheduledReconnect ==
  /\ Cardinality(Reconnecting) <= 1
  /\ \A t \in timer : pc[t] = "scheduled" => Reconnecting = {}

\* C35: the auto-reconnect flag becomes true only when a connect sequence that
\* was asked to reconnect automatically succeeds, and it is false when a
\* connect or reconnect sequence has failed with its retries exhausted.
C35_FlagOnlyOnSuccess ==
  /\ [][(~_reconnect /\ _reconnect') => (ended'.what = "connectResolved" /\ ended'.auto)]_vars
  /\ [](ended.what \in {"connectRejected", "reconnectFailed"} => ~_reconnect)

\* C36: when a connect() call resolves and no gattserverdisconnected event was
\* dispatched since it was made, the Pixel has a Session and its info, also
\* after an attempt that failed on the same open link and also when another
\* connect() call ran at the same time.
C36_ResolvedIsReady ==
  (ended.what = "connectResolved" /\ ~ended.timer /\ ~ended.dropped)
    => (_session /\ _info # 0)

AttemptFailures == {"attemptFailed", "connectRejected", "reconnectFailed"}

\* C37: a connect attempt that fails after it has constructed the Session (at
\* the subscription or at the identification) leaves no Session: the session
\* is absent after the failed attempt.
C37_FailedAttemptLeavesNoSession ==
  [][\A t \in Tasks :
       (pc[t] \in {"subscribe", "identify"} /\ ended'.task = t
          /\ ended'.what \in AttemptFailures)
         => ~_session']_vars

\* C38: whenever info is populated a Session exists, also when a link loss and
\* a new connect sequence interleave with an identification that waits for its
\* reply.
C38_InfoImpliesSession == _info # 0 => _session

\* A connect() call during which the link was lost has identified the die: its
\* reply is stored and the Session exists.
C38_Witness ==
  ended.what = "identified" /\ ended.dropped /\ _info # 0 /\ _session

\* C39: disconnect() triggers no automatic reconnect: the step in which
\* disconnect() notifies Disconnecting and Disconnected schedules no reconnect.
C39_DisconnectSchedulesNothing ==
  [][Emits({"disconnecting"})' => (\A t \in Tasks : pc'[t] = "scheduled" => pc[t] = "scheduled")]_vars

\* C40: when a sendAndWaitForResponse call settles, resolved or rejected by its
\* timeout or by its write, the listener it registered is registered no more.
C40_SettledCallHasNoListener ==
  [][\A t \in Tasks :
       (pc[t] = "request" /\ ended'.task = t
          /\ ended'.what \in {"requestResolved", "requestRejected"})
         => (t \notin listeners /\ orphans' = orphans)]_vars
====
